---- MODULE Spec2Model ----
(***************************************************************************)
(* A model of mypy's dataclasses plugin (mypy/plugins/dataclasses.py):     *)
(* DataclassTransformer.transform and the helpers it calls, run over a     *)
(* small class hierarchy by the semantic analyzer's passes.                *)
(***************************************************************************)
EXTENDS Integers, Sequences, FiniteSets, TLC

VARIABLES
    mro,        \* class -> its linearized ancestor chain (TypeInfo.mro), root last
    body,       \* class -> the annotated assignments of its body (cls.defs.body)
    flags,      \* class -> the decorator's init/eq/order/frozen arguments
    rootEq,     \* whether the root class object defines __eq__ (the stubs decide)
    names,      \* class -> its symbol table (TypeInfo.names)
    metadata,   \* class -> its 'dataclass' metadata record (TypeInfo.metadata)
    visited,    \* the classes the analyzer has run the plugin hook on
    last        \* what the last pass did: operation, class, outcome, outputs

vars == <<mro, body, flags, rootEq, names, metadata, visited, last>>

\* --------------------------------------------------------------- bounds

\* The most annotated assignments in the bodies of all the classes together, in the
\* programs about the order of the fields.
MaxStmts == 3

\* The same in the programs about constructor-only fields and readiness.
MaxDeferStmts == 2

\* ------------------------------------------------------------ the domain

Classes == {"A", "B", "C"}

Root == "object"

FieldNames == {"x", "y"}

OrderMethods == <<"__lt__", "__gt__", "__le__", "__ge__">>

EqMethods == <<"__eq__", "__ne__">>

SELF_TVAR_NAME == "_DT"

MethodNames == {"__init__", "__eq__", "__ne__", "__lt__", "__gt__", "__le__", "__ge__"}

MemberNames == FieldNames \cup MethodNames \cup {SELF_TVAR_NAME}

ARG_POS == "ARG_POS"

ARG_OPT == "ARG_OPT"

\* A symbol table entry. kind "none" is a name the table does not hold.
Sym(kind, type, classvar, generated, args) ==
    [kind |-> kind, type |-> type, is_classvar |-> classvar, is_property |-> FALSE,
     plugin_generated |-> generated, args |-> args]

NoSym == Sym("none", "None", FALSE, FALSE, <<>>)

PlaceholderSym == Sym("PlaceholderNode", "None", FALSE, FALSE, <<>>)

\* Var(name, type): type is "None" (not resolved yet), "T" or "InitVar" (InitVar[T]).
VarSym(type, classvar) == Sym("Var", type, classvar, FALSE, <<>>)

\* A method the user wrote in the class body (its parameters are not modelled).
UserFunc == Sym("FuncDef", "callable", FALSE, FALSE, <<>>)

NoNames == [m \in MemberNames |-> NoSym]

NoMetadata == [present |-> FALSE, attributes |-> <<>>, frozen |-> FALSE]

\* The keyword arguments of a call that is not field(), and of field().
NoArgs == [init |-> "absent", default |-> FALSE, default_factory |-> FALSE]

\* The index of class c among the classes, which places its body in the file.
ClassIndex(c) == CASE c = "A" -> 1 [] c = "B" -> 2 [] OTHER -> 3

\* The line of the i-th statement of c's body.
StmtLine(c, i) == 10 * ClassIndex(c) + i

\* ------------------------------------------------------- sequence helpers

RECURSIVE SeqToSet(_)
SeqToSet(s) == IF s = <<>> THEN {} ELSE {Head(s)} \cup SeqToSet(Tail(s))

RemoveAt(s, i) == SubSeq(s, 1, i - 1) \o SubSeq(s, i + 1, Len(s))

IndicesOf(s, name) == {i \in 1..Len(s) : s[i].name = name}

HasName(s, name) == IndicesOf(s, name) # {}

\* ------------------------------------------------- DataclassAttribute

DataclassAttribute(name, is_in_init, is_init_var, has_default, line, column) ==
    [name |-> name, is_in_init |-> is_in_init, is_init_var |-> is_init_var,
     has_default |-> has_default, line |-> line, column |-> column]

serialize(attr) ==
    [name |-> attr.name, is_in_init |-> attr.is_in_init,
     is_init_var |-> attr.is_init_var, has_default |-> attr.has_default,
     line |-> attr.line, column |-> attr.column]

deserialize(data) ==
    DataclassAttribute(data.name, data.is_in_init, data.is_init_var,
                       data.has_default, data.line, data.column)

\* OrderedDict((attr.name, attr.serialize()) for attr in attributes): a key seen
\* again keeps its first position and takes the later value.
RECURSIVE OrderedDict(_, _)
OrderedDict(attributes, acc) ==
    IF attributes = <<>> THEN acc
    ELSE LET attr == Head(attributes)
             at == IndicesOf(acc, attr.name)
         IN  IF at = {}
             THEN OrderedDict(Tail(attributes), Append(acc, serialize(attr)))
             ELSE OrderedDict(Tail(attributes),
                              [acc EXCEPT ![CHOOSE i \in at : TRUE] = serialize(attr)])

\* ------------------------------------------------------ TypeInfo lookups

RootNames ==
    [m \in MemberNames |->
        IF m = "__init__" \/ (rootEq /\ m \in {"__eq__", "__ne__"}) THEN UserFunc ELSE NoSym]

\* The symbol table of class k while class c is being transformed with table nm.
TableOf(k, c, nm) == IF k = c THEN nm ELSE IF k = Root THEN RootNames ELSE names[k]

\* TypeInfo.get(name): the first entry for name along the MRO, or NoSym (None).
RECURSIVE LookupFrom(_, _, _, _, _)
LookupFrom(c, nm, name, chain, i) ==
    IF i > Len(chain) THEN NoSym
    ELSE LET sym == TableOf(chain[i], c, nm)[name]
         IN  IF sym.kind # "none" THEN sym ELSE LookupFrom(c, nm, name, chain, i + 1)

InfoGet(c, nm, name) == LookupFrom(c, nm, name, mro[c], 1)

\* TypeInfo.get_method(name): the first entry along the MRO, if it is a function.
GetMethod(c, nm, name) ==
    LET sym == InfoGet(c, nm, name)
    IN  IF sym.kind = "FuncDef" THEN sym ELSE NoSym

\* ------------------------------------------------- collect_attributes

\* ctx.api.parse_bool(expr): True or False for the literals, None for another expression.
parse_bool(expr) == IF expr \in {"True", "False"} THEN expr ELSE "None"

\* bool(value) of a parse_bool result.
bool(value) == value = "True"

\* _collect_field_args(expr): whether expr is a call of dataclasses.field, and its
\* keyword arguments.
collect_field_args(rvalue) ==
    IF rvalue.kind = "field" THEN <<TRUE, rvalue.args>> ELSE <<FALSE, NoArgs>>

\* The descriptor of statement stmt, the i-th of c's body, whose symbol is node.
OwnAttribute(c, i, stmt, node) ==
    LET fa == collect_field_args(stmt.rvalue)
        has_field_call == fa[1]
        field_args == fa[2]
        is_in_init == IF field_args.init = "absent" THEN TRUE
                      ELSE bool(parse_bool(field_args.init))
        has_default == IF has_field_call
                       THEN field_args.default \/ field_args.default_factory
                       ELSE stmt.rvalue.kind # "TempNode"
    IN  DataclassAttribute(stmt.name, is_in_init, node.type = "InitVar", has_default,
                           StmtLine(c, i), 4)

\* The loop over cls.defs.body from statement i on: the attributes of the class
\* itself. ready is FALSE when a symbol is a placeholder (collect_attributes returns
\* None); names is the class's table, where an InitVar[T] symbol now has type T.
RECURSIVE CollectOwn(_, _, _, _)
CollectOwn(c, i, attrs, nm) ==
    IF i > Len(body[c]) THEN [ready |-> TRUE, attrs |-> attrs, names |-> nm]
    ELSE LET stmt == body[c][i]
             sym == nm[stmt.name]
         IN  IF sym.kind = "none" THEN CollectOwn(c, i + 1, attrs, nm)
             ELSE IF sym.kind = "PlaceholderNode"
             THEN [ready |-> FALSE, attrs |-> attrs, names |-> nm]
             ELSE IF sym.is_classvar THEN CollectOwn(c, i + 1, attrs, nm)
             ELSE CollectOwn(c, i + 1,
                             Append(attrs, OwnAttribute(c, i, stmt, sym)),
                             IF sym.type = "InitVar"
                             THEN [nm EXCEPT ![stmt.name].type = "T"]
                             ELSE nm)

\* The symbol table after an inherited InitVar attr is looked up in init_method:
\* each parameter of that name is bound again in the class's table.
Reinject(nm, attr, init_method) ==
    IF attr.is_init_var /\ init_method.kind = "FuncDef"
          /\ \E k \in 1..Len(init_method.args) : init_method.args[k].name = attr.name
    THEN [nm EXCEPT ![attr.name] = VarSym("T", FALSE)]
    ELSE nm

\* One entry, data, of an ancestor's metadata. st holds super_attrs, all_attrs,
\* known_attrs, the class's table, and ok, which is FALSE once the unpacking
\* (attr,) = [a for a in all_attrs if a.name == name] has raised.
MergeEntry(st, data, init_method) ==
    IF ~st.ok THEN st
    ELSE IF data.name \notin st.known
    THEN LET attr == deserialize(data)
         IN  [st EXCEPT !.names = Reinject(st.names, attr, init_method),
                        !.known = st.known \cup {data.name},
                        !.super = Append(st.super, attr)]
    ELSE LET at == IndicesOf(st.all, data.name)
         IN  IF Cardinality(at) # 1 THEN [st EXCEPT !.ok = FALSE]
             ELSE LET i == CHOOSE j \in at : TRUE
                  IN  [st EXCEPT !.all = RemoveAt(st.all, i),
                                 !.super = Append(st.super, st.all[i])]

RECURSIVE MergeEntries(_, _, _)
MergeEntries(st, entries, init_method) ==
    IF entries = <<>> THEN st
    ELSE MergeEntries(MergeEntry(st, Head(entries), init_method), Tail(entries),
                      init_method)

\* all_attrs = super_attrs + all_attrs, unless the unpacking raised.
Prepend(st) == IF st.ok THEN [st EXCEPT !.all = st.super \o st.all, !.super = <<>>] ELSE st

\* One class, info, of cls.info.mro[1:-1]: skipped when it has no metadata, else
\* its attributes go ahead of those collected so far.
MergeInfo(st, info, init_method) ==
    IF ~st.ok \/ ~metadata[info].present THEN st
    ELSE Prepend(MergeEntries([st EXCEPT !.super = <<>>], metadata[info].attributes,
                              init_method))

RECURSIVE MergeMro(_, _, _)
MergeMro(st, chain, init_method) ==
    IF chain = <<>> THEN st
    ELSE MergeMro(MergeInfo(st, Head(chain), init_method), Tail(chain), init_method)

\* A diagnostic of ctx.api.fail(msg, context).
Diagnostic(msg, line, column) == [msg |-> msg, line |-> line, column |-> column]

\* The last loop of collect_attributes with line 328 as
\* 'found_default = found_default or attr.has_default'.
RECURSIVE OrderDiagnosticsAnyDefault(_, _, _)
OrderDiagnosticsAnyDefault(all_attrs, i, found_default) ==
    IF i > Len(all_attrs) THEN <<>>
    ELSE (IF found_default /\ all_attrs[i].is_in_init /\ ~all_attrs[i].has_default
          THEN <<[msg |-> "Attributes without a default cannot follow attributes with one",
                  line |-> all_attrs[i].line, column |-> all_attrs[i].column]>>
          ELSE <<>>)
         \o OrderDiagnosticsAnyDefault(all_attrs, i + 1,
                                       found_default \/ all_attrs[i].has_default)

\* The diagnostics of the last loop of collect_attributes, from attribute i on.
RECURSIVE OrderDiagnostics(_, _, _)
OrderDiagnostics(all_attrs, i, found_default) ==
    IF i > Len(all_attrs) THEN <<>>
    ELSE LET attr == all_attrs[i]
             here == IF found_default /\ attr.is_in_init /\ ~attr.has_default
                     THEN <<Diagnostic("Attributes without a default cannot follow attributes with one",
                                       attr.line, attr.column)>>
                     ELSE <<>>
         IN  here \o OrderDiagnostics(all_attrs, i + 1,
                                      found_default \/ (attr.has_default /\ attr.is_in_init))

\* What collect_attributes returns and leaves: result is "list" (the merged list is
\* returned), "None" (a placeholder: not ready) or "raise" (the unpacking raised
\* ValueError); names is the class's table afterwards.
Collected(result, attrs, nm, diags) ==
    [result |-> result, attrs |-> attrs, names |-> nm, diags |-> diags]

\* The end of collect_attributes: the check of the defaults' order over all_attrs.
CheckOrder(st) ==
    IF ~st.ok THEN Collected("raise", <<>>, st.names, <<>>)
    ELSE Collected("list", st.all, st.names, OrderDiagnostics(st.all, 1, FALSE))

\* collect_attributes after its first loop has returned own.
MergeAncestors(c, own) ==
    IF ~own.ready THEN Collected("None", <<>>, own.names, <<>>)
    ELSE CheckOrder(MergeMro([ok |-> TRUE, super |-> <<>>, all |-> own.attrs,
                              known |-> {own.attrs[i].name : i \in 1..Len(own.attrs)},
                              names |-> own.names],
                             SubSeq(mro[c], 2, Len(mro[c]) - 1),
                             GetMethod(c, own.names, "__init__")))

\* collect_attributes on class c, whose table is names[c].
collect_attributes(c) == MergeAncestors(c, CollectOwn(c, 1, <<>>, names[c]))

\* ------------------------------------------------------------ transform

\* add_method(ctx, name, args, ...) of mypy.plugins.common: the generated method
\* is bound in the class's table, marked plugin_generated; a member the user wrote
\* keeps its binding.
add_method(nm, name, args) ==
    IF nm[name].kind # "none" /\ ~nm[name].plugin_generated THEN nm
    ELSE [nm EXCEPT ![name] = Sym("FuncDef", "callable", FALSE, TRUE, args)]

\* to_argument without the test of has_default: every parameter is required.
to_argument_required(attr) == [name |-> attr.name, kind |-> ARG_POS]

\* DataclassAttribute.to_argument(info).
to_argument(attr) ==
    [name |-> attr.name, kind |-> IF attr.has_default THEN ARG_OPT ELSE ARG_POS]

\* [attr.to_argument(info) for attr in attributes if attr.is_in_init]
RECURSIVE InitArguments(_)
InitArguments(attributes) ==
    IF attributes = <<>> THEN <<>>
    ELSE (IF Head(attributes).is_in_init THEN <<to_argument(Head(attributes))>> ELSE <<>>)
         \o InitArguments(Tail(attributes))

\* The loop 'for attr in attributes: if info[attr.name].type is None': "KeyError"
\* when the lookup along the MRO finds nothing, "defer" when a type is None.
RECURSIVE TypesReady(_, _, _)
TypesReady(c, nm, attributes) ==
    IF attributes = <<>> THEN "ready"
    ELSE LET sym == InfoGet(c, nm, Head(attributes).name)
         IN  IF sym.kind = "none" THEN "KeyError"
             ELSE IF sym.type = "None" THEN "defer"
             ELSE TypesReady(c, nm, Tail(attributes))

\* Whether transform generates __init__ (lines 100-102).
GeneratesInit(c, nm, attributes) ==
    /\ flags[c].init
    /\ nm["__init__"].kind = "none" \/ nm["__init__"].plugin_generated
    /\ attributes # <<>>

\* Whether transform generates __eq__ and __ne__ (line 119).
GeneratesEq(c, nm) == flags[c].eq /\ InfoGet(c, nm, "__eq__").kind = "none"

\* Whether transform binds the self type variable _DT (lines 110-111).
BindsSelfTvar(c, nm) == GeneratesEq(c, nm) \/ flags[c].order

\* Whether transform generates the ordering methods (line 140).
GeneratesOrder(c) == flags[c].order

\* args=[Argument(Var('other', ...), ..., None, ARG_POS)] of the comparison methods.
OtherArgument == <<[name |-> "other", kind |-> ARG_POS]>>

\* A call add_method(ctx, name, args=args, ...), and the calls for a list of names.
Call(name, args) == [name |-> name, args |-> args]

Calls(methods, args) == [i \in 1..Len(methods) |-> Call(methods[i], args)]

\* The table after add_method is called for each method of the sequence.
RECURSIVE AddMethods(_, _, _)
AddMethods(nm, methods, args) ==
    IF methods = <<>> THEN nm
    ELSE AddMethods(add_method(nm, Head(methods), args), Tail(methods), args)

\* The diagnostics of the loop over the ordering methods, from the i-th on: one for
\* each that info.get finds and that the plugin did not generate.
RECURSIVE CustomMethodFailures(_, _, _)
CustomMethodFailures(c, nm, i) ==
    IF i > Len(OrderMethods) THEN <<>>
    ELSE (IF InfoGet(c, nm, OrderMethods[i]).kind # "none"
             /\ ~InfoGet(c, nm, OrderMethods[i]).plugin_generated
          THEN <<Diagnostic("You may not have a custom method when order=True",
                            10 * ClassIndex(c), i)>>
          ELSE <<>>)
         \o CustomMethodFailures(c, nm, i + 1)

\* The diagnostics of the ordering block (lines 140-162).
OrderFailures(c, nm) ==
    (IF ~flags[c].eq
     THEN <<Diagnostic("eq must be True if order is True", 10 * ClassIndex(c), 0)>>
     ELSE <<>>)
    \o CustomMethodFailures(c, nm, 1)

\* _freeze(attributes): each attribute's symbol becomes a property; an attribute the
\* class's own table does not hold gets a new symbol there.
RECURSIVE freeze(_, _, _)
freeze(c, nm, attributes) ==
    IF attributes = <<>> THEN nm
    ELSE LET name == Head(attributes).name
             type == InfoGet(c, nm, name).type
         IN  freeze(c,
                    IF nm[name].kind # "none"
                    THEN [nm EXCEPT ![name].is_property = TRUE]
                    ELSE [nm EXCEPT ![name] = [VarSym(type, FALSE) EXCEPT !.is_property = TRUE]],
                    Tail(attributes))

\* reset_init_only_vars without 'del info.names[attr.name]'.
reset_init_only_vars_keeping(nm, attributes) == [ok |-> TRUE, names |-> nm]

\* reset_init_only_vars(info, attributes): ok is FALSE when del info.names[name]
\* raised KeyError.
RECURSIVE reset_init_only_vars(_, _)
reset_init_only_vars(nm, attributes) ==
    IF attributes = <<>> THEN [ok |-> TRUE, names |-> nm]
    ELSE IF ~Head(attributes).is_init_var THEN reset_init_only_vars(nm, Tail(attributes))
    ELSE IF nm[Head(attributes).name].kind = "none" THEN [ok |-> FALSE, names |-> nm]
    ELSE reset_init_only_vars([nm EXCEPT ![Head(attributes).name] = NoSym],
                              Tail(attributes))

\* What one invocation leaves: how it ended, the class's table and metadata, the
\* list collect_attributes returned (collected tells whether it returned one), the
\* diagnostics of ctx.api.fail and the names add_method was called with.
Outcome(outcome, nm, meta, collected, attrs, diags, calls) ==
    [outcome |-> outcome, names |-> nm, metadata |-> meta, collected |-> collected,
     attrs |-> attrs, diags |-> diags, calls |-> calls]

\* The steps of transform after the attributes are ready. Each takes and returns
\* st: the class's table, the diagnostics and the add_method calls so far.

\* Lines 100-108: __init__.
InitStep(c, attributes, st) ==
    IF GeneratesInit(c, st.names, attributes)
    THEN [st EXCEPT !.names = add_method(st.names, "__init__", InitArguments(attributes)),
                    !.calls = Append(st.calls, Call("__init__", InitArguments(attributes)))]
    ELSE st

\* Lines 110-116: the type variable for self types.
SelfTvarStep(c, st) ==
    IF BindsSelfTvar(c, st.names)
    THEN [st EXCEPT !.names[SELF_TVAR_NAME] = Sym("TypeVarExpr", "None", FALSE, FALSE, <<>>)]
    ELSE st

\* Lines 118-137: __eq__ and __ne__.
EqStep(c, st) ==
    IF GeneratesEq(c, st.names)
    THEN [st EXCEPT !.names = AddMethods(st.names, EqMethods, OtherArgument),
                    !.calls = st.calls \o Calls(EqMethods, OtherArgument)]
    ELSE st

\* Lines 139-171: the ordering methods.
OrderStep(c, st) ==
    IF GeneratesOrder(c)
    THEN [st EXCEPT !.names = AddMethods(st.names, OrderMethods, OtherArgument),
                    !.calls = st.calls \o Calls(OrderMethods, OtherArgument),
                    !.diags = st.diags \o OrderFailures(c, st.names)]
    ELSE st

\* Lines 173-174: frozen.
FreezeStep(c, attributes, st) ==
    IF flags[c].frozen THEN [st EXCEPT !.names = freeze(c, st.names, attributes)] ELSE st

\* Line 176: reset_init_only_vars, which may raise.
ResetStep(attributes, st) ==
    [names |-> reset_init_only_vars(st.names, attributes), diags |-> st.diags,
     calls |-> st.calls]

\* Lines 178-181: the metadata is written, unless reset_init_only_vars raised.
WriteMetadata(c, attributes, st) ==
    IF ~st.names.ok
    THEN Outcome("raise", st.names.names, metadata[c], TRUE, attributes, st.diags, st.calls)
    ELSE Outcome("done", st.names.names,
                 [present |-> TRUE, attributes |-> OrderedDict(attributes, <<>>),
                  frozen |-> flags[c].frozen],
                 TRUE, attributes, st.diags, st.calls)

\* Lines 89-181 of transform, on what collect_attributes returned.
Synthesize(c, ca) ==
    WriteMetadata(c, ca.attrs,
      ResetStep(ca.attrs,
        FreezeStep(c, ca.attrs,
          OrderStep(c,
            EqStep(c,
              SelfTvarStep(c,
                InitStep(c, ca.attrs,
                  [names |-> ca.names, diags |-> ca.diags, calls |-> <<>>])))))))

\* Lines 85-88 onwards: types is what the loop over the attributes' types found.
AfterTypes(c, ca, types) ==
    IF types = "defer"
    THEN Outcome("defer", ca.names, metadata[c], TRUE, ca.attrs, ca.diags, <<>>)
    ELSE IF types = "KeyError"
    THEN Outcome("raise", ca.names, metadata[c], TRUE, ca.attrs, ca.diags, <<>>)
    ELSE Synthesize(c, ca)

\* Lines 82 onwards: ca is what collect_attributes returned and left.
AfterCollect(c, ca) ==
    IF ca.result = "None"
    THEN Outcome("defer", ca.names, metadata[c], FALSE, <<>>, <<>>, <<>>)
    ELSE IF ca.result = "raise"
    THEN Outcome("raise", ca.names, metadata[c], FALSE, <<>>, <<>>, <<>>)
    ELSE AfterTypes(c, ca, TypesReady(c, ca.names, ca.attrs))

\* DataclassTransformer.transform on class c.
transform(c) == AfterCollect(c, collect_attributes(c))

\* ------------------------------------------------------- the analyzer

\* The annotation of name in c's body: the last declaration's.
RECURSIVE Annotation(_, _, _)
Annotation(stmts, name, found) ==
    IF stmts = <<>> THEN found
    ELSE Annotation(Tail(stmts), name,
                    IF Head(stmts).name = name THEN Head(stmts).ann ELSE found)

Declared(c) == {body[c][i].name : i \in 1..Len(body[c])}

\* The symbol the analyzer binds a declared name to once its type is resolved: the
\* Var it already holds, with the declared type, or a new Var.
Resolved(stmts, name, sym) ==
    LET ann == Annotation(stmts, name, "T")
        type == IF ann = "InitVar" THEN "InitVar" ELSE "T"
    IN  IF sym.kind = "Var"
        THEN [sym EXCEPT !.type = type, !.is_classvar = (ann = "ClassVar")]
        ELSE VarSym(type, ann = "ClassVar")

\* A semantic analysis pass over the body of class c: every declared name is bound
\* to a Var of its declared type (a placeholder or an unresolved type resolves, a
\* symbol reset_init_only_vars removed is created again).
Analyze(c) ==
    /\ names' = [names EXCEPT ![c] =
                    [m \in MemberNames |->
                        IF m \in Declared(c) THEN Resolved(body[c], m, names[c][m])
                        ELSE names[c][m]]]
    /\ names' # names
    /\ last' = [op |-> "analyze", cls |-> c, outcome |-> "done", collected |-> FALSE,
                attrs |-> <<>>, diags |-> <<>>, calls |-> <<>>]
    /\ UNCHANGED <<mro, body, flags, rootEq, metadata, visited>>

\* The data-holder ancestors of c: the classes of its MRO between c and the root.
Ancestors(c) == {mro[c][i] : i \in 2..(Len(mro[c]) - 1)}

\* The state after an invocation on class c that left r.
Leave(c, r) ==
    /\ names' = [names EXCEPT ![c] = r.names]
    /\ metadata' = [metadata EXCEPT ![c] = r.metadata]
    /\ last' = [op |-> "transform", cls |-> c, outcome |-> r.outcome,
                collected |-> r.collected, attrs |-> r.attrs, diags |-> r.diags,
                calls |-> r.calls]

\* The plugin hook dataclass_class_maker_callback on class c. The analyzer runs it on
\* a class after it has run it on the class's ancestors.
Transform(c) ==
    /\ Ancestors(c) \subseteq visited
    /\ Leave(c, transform(c))
    /\ visited' = visited \cup {c}
    /\ UNCHANGED <<mro, body, flags, rootEq>>

\* ------------------------------------------------------ the programs

TempNode == [kind |-> "TempNode", args |-> NoArgs]

Value == [kind |-> "expr", args |-> NoArgs]

FieldCall(init, default, factory) ==
    [kind |-> "field",
     args |-> [init |-> init, default |-> default, default_factory |-> factory]]

Stmt(name, ann, rvalue) == [name |-> name, ann |-> ann, rvalue |-> rvalue]

DefaultFlags == [init |-> TRUE, eq |-> TRUE, order |-> FALSE, frozen |-> FALSE]

AllFlags == [init : BOOLEAN, eq : BOOLEAN, order : BOOLEAN, frozen : BOOLEAN]

\* class C(B), class B(A), class A.
Chain == [A |-> <<"A", Root>>, B |-> <<"B", "A", Root>>, C |-> <<"C", "B", "A", Root>>]

\* class C(A, B), class A, class B.
Fork == [A |-> <<"A", Root>>, B |-> <<"B", Root>>, C |-> <<"C", "A", "B", Root>>]

\* The table of a class after the first analysis of its body: the declared names
\* (pending gives the ones not resolved yet and how) and the user's methods.
FirstNames(stmts, pending, user) ==
    [m \in MemberNames |->
        IF m \in user THEN UserFunc
        ELSE IF m \notin {stmts[i].name : i \in 1..Len(stmts)} THEN NoSym
        ELSE IF pending[m] = "placeholder" THEN PlaceholderSym
        ELSE IF pending[m] = "untyped"
        THEN [Resolved(stmts, m, NoSym) EXCEPT !.type = "None"]
        ELSE Resolved(stmts, m, NoSym)]

NothingPending == [m \in FieldNames |-> "ready"]

\* The bodies of the three classes with at most n statements of the set stmts
\* in all.
Bodies(stmts, n) ==
    UNION {{[A |-> a, B |-> b, C |-> c] :
                a \in [1..l[1] -> stmts], b \in [1..l[2] -> stmts], c \in [1..l[3] -> stmts]} :
           l \in {t \in (0..n) \X (0..n) \X (0..n) : t[1] + t[2] + t[3] <= n}}

NoLast == [op |-> "none", cls |-> Root, outcome |-> "done", collected |-> FALSE,
           attrs |-> <<>>, diags |-> <<>>, calls |-> <<>>]

Start(m, b, f, re, pending, user) ==
    /\ mro = m
    /\ body = b
    /\ flags = f
    /\ rootEq = re
    /\ names = [c \in Classes |-> FirstNames(b[c], pending[c], user[c])]
    /\ metadata = [c \in Classes |-> NoMetadata]
    /\ visited = {}
    /\ last = NoLast

\* Programs about the order of the fields: plain fields with and without a default
\* value, in both hierarchies.
InitFields ==
    \E m \in {Chain, Fork} :
    \E b \in Bodies({Stmt(n, "T", rv) : n \in FieldNames, rv \in {TempNode, Value}}, MaxStmts) :
        Start(m, b, [c \in Classes |-> DefaultFlags], FALSE,
              [c \in Classes |-> NothingPending], [c \in Classes |-> {}])

\* Programs about the generated members: every combination of the decorator's
\* arguments on B, which derives from A, with methods the user wrote.
InitMembers ==
    \E fa \in {DefaultFlags, [DefaultFlags EXCEPT !.eq = FALSE],
               [DefaultFlags EXCEPT !.order = TRUE]} :
    \E fb \in AllFlags :
    \E ua \in {{}, {"__eq__"}, {"__lt__"}} :
    \E ub \in {{}, {"__init__"}, {"__eq__"}, {"__ne__"}, {"__lt__"}, {SELF_TVAR_NAME}} :
    \E bb \in {<<>>, <<Stmt("y", "T", Value)>>} :
    \E re \in BOOLEAN :
        Start(Chain, [A |-> <<Stmt("x", "T", TempNode)>>, B |-> bb, C |-> <<>>],
              [A |-> fa, B |-> fb, C |-> DefaultFlags], re,
              [c \in Classes |-> NothingPending], [A |-> ua, B |-> ub, C |-> {}])

\* The statements of the programs about constructor-only fields and readiness.
DeferStmts ==
    {Stmt("x", "InitVar", TempNode), Stmt("x", "InitVar", FieldCall("False", FALSE, FALSE)),
     Stmt("x", "T", Value), Stmt("x", "ClassVar", Value),
     Stmt("y", "T", TempNode), Stmt("y", "T", FieldCall("name", TRUE, FALSE))}

\* A name declared twice in a body has the same annotation both times.
OneAnnotation(stmts) ==
    \A i, j \in 1..Len(stmts) : stmts[i].name = stmts[j].name => stmts[i].ann = stmts[j].ann

\* Programs about constructor-only fields and about fields that are not ready, in
\* classes A and B of the chain: at most one symbol is a placeholder or has no type
\* yet.
InitDefer ==
    \E b \in Bodies(DeferStmts, MaxDeferStmts) :
        /\ b["C"] = <<>>
        /\ \A c \in Classes : OneAnnotation(b[c])
        /\ \E pending \in
              {[c \in Classes |-> [n \in FieldNames |->
                   IF c = k /\ Len(b[c]) >= i /\ how # "ready" /\ b[c][i].name = n
                   THEN how ELSE "ready"]] :
               k \in {"A", "B"}, i \in 1..MaxDeferStmts,
               how \in {"ready", "untyped", "placeholder"}} :
              Start(Chain, b, [c \in Classes |-> DefaultFlags], FALSE, pending,
                    [c \in Classes |-> {}])

Init == InitFields \/ InitMembers \/ InitDefer

Next == \E c \in Classes : Analyze(c) \/ Transform(c)

Spec == Init /\ [][Next]_vars

\* ----------------------------------------------------------- the claims

\* The invocation of transform that has just ended, and whether it completed.
Invoked == last.op = "transform"

Completed == Invoked /\ last.outcome = "done"

NameSeq(attrs) == [i \in 1..Len(attrs) |-> attrs[i].name]

CallNames(calls) == {calls[i].name : i \in 1..Len(calls)}

\* Whether descriptor attr was collected from the body of class c itself.
IsOwn(c, attr) == attr.line \in {StmtLine(c, i) : i \in 1..Len(body[c])}

\* The names of a sequence, each once, in the order of their first occurrence,
\* after the names of acc.
RECURSIVE AppendNew(_, _)
AppendNew(acc, ns) ==
    IF ns = <<>> THEN acc
    ELSE AppendNew(IF Head(ns) \in SeqToSet(acc) THEN acc ELSE Append(acc, Head(ns)),
                   Tail(ns))

\* The field order of the dataclasses documentation: the classes of the chain from
\* the most base one on, each adding the names it holds that are not there yet.
RECURSIVE ReverseMroOrder(_, _)
ReverseMroOrder(chain, acc) ==
    IF chain = <<>> THEN acc
    ELSE LET info == chain[Len(chain)]
         IN  ReverseMroOrder(SubSeq(chain, 1, Len(chain) - 1),
                             IF metadata[info].present
                             THEN AppendNew(acc, NameSeq(metadata[info].attributes))
                             ELSE acc)

\* The descriptor of name in the metadata of the most derived ancestor that holds it.
RECURSIVE InheritedDescriptor(_, _)
InheritedDescriptor(chain, name) ==
    IF chain = <<>> THEN NoSym
    ELSE IF metadata[Head(chain)].present /\ HasName(metadata[Head(chain)].attributes, name)
    THEN LET attributes == metadata[Head(chain)].attributes
         IN  attributes[CHOOSE i \in IndicesOf(attributes, name) : TRUE]
    ELSE InheritedDescriptor(Tail(chain), name)

\* The names of the statements of c's body, from the i-th on, whose descriptor is in
\* attrs: the fields the class declares, in the order of their declarations.
RECURSIVE DeclaredNames(_, _, _)
DeclaredNames(c, attrs, i) ==
    IF i > Len(body[c]) THEN <<>>
    ELSE (IF \E k \in 1..Len(attrs) : attrs[k].line = StmtLine(c, i)
          THEN <<body[c][i].name>> ELSE <<>>)
         \o DeclaredNames(c, attrs, i + 1)

\* The merged list of C1 for class c, given the list attrs that was returned: the
\* order of the names, and the descriptor of each name, the class's own when it
\* declares the name and else the most derived ancestor's.
MergedAsDocumented(c, attrs) ==
    LET chain == SubSeq(mro[c], 2, Len(mro[c]) - 1)
        declared == DeclaredNames(c, attrs, 1)
    IN  /\ NameSeq(attrs) = AppendNew(ReverseMroOrder(chain, <<>>), declared)
        /\ \A i \in 1..Len(attrs) :
              IF attrs[i].name \in SeqToSet(declared)
              THEN IsOwn(c, attrs[i])
              ELSE attrs[i] = InheritedDescriptor(chain, attrs[i].name)

\* C1: the list collect_attributes returns holds every field name exactly once, in
\* reverse-MRO order: an inherited or overridden name at the place of the most base
\* class that declares it, an overridden name with the descriptor of the most derived
\* class, the names the class introduces last, in the order of their declarations.
MergedListIsReverseMro ==
    (Invoked /\ last.collected) => MergedAsDocumented(last.cls, last.attrs)

\* The same for the classes whose body declares no name twice: a lemma the model
\* satisfies, which locates the failure of C1 in the repeated declarations.
MergedListOfDistinctDeclarations ==
    (Invoked /\ last.collected
       /\ \A i, j \in 1..Len(body[last.cls]) :
             body[last.cls][i].name = body[last.cls][j].name => i = j)
    => MergedAsDocumented(last.cls, last.attrs)

\* C2: a second invocation of transform on a class, from the state its first
\* completed invocation left, leaves the class's table and metadata as they were.
TransformIsIdempotent ==
    [][(Completed /\ last'.op = "transform" /\ last'.outcome = "done"
          /\ last'.cls = last.cls)
       => (names'[last.cls] = names[last.cls] /\ metadata'[last.cls] = metadata[last.cls])]_vars

\* The parameters C3 expects for the merged list attrs.
ExpectedParameters(attrs) ==
    LET inInit == SelectSeq(attrs, LAMBDA a : a.is_in_init)
    IN  [i \in 1..Len(inInit) |->
            [name |-> inInit[i].name,
             kind |-> IF inInit[i].has_default THEN "ARG_OPT" ELSE "ARG_POS"]]

\* C3: whenever transform generates the constructor, its parameters are the fields
\* of the merged list with is_in_init, in the list's order, each ARG_OPT exactly when
\* the field has a default.
ConstructorParameters ==
    (Invoked /\ "__init__" \in CallNames(last.calls))
    => \A i \in 1..Len(last.calls) :
          last.calls[i].name = "__init__"
          => last.calls[i].args = ExpectedParameters(last.attrs)

\* A constructor of one parameter, generated from a merged list that also holds a
\* field with a default that is not in the constructor, and a constructor-only field.
ConstructorParametersWitness ==
    /\ Invoked
    /\ \E n \in 1..Len(last.calls) :
          last.calls[n].name = "__init__" /\ Len(last.calls[n].args) = 1
    /\ \E i, j \in 1..Len(last.attrs) :
          /\ ~last.attrs[i].is_in_init /\ last.attrs[i].has_default
          /\ last.attrs[j].is_in_init /\ last.attrs[j].is_init_var

\* C4: a name bound before transform ran to a member this pass did not generate
\* (a method the user wrote, or a member named _DT) is bound to the same member
\* after transform returns.
UserMembersKept ==
    [][last'.op = "transform"
       => \A m \in MethodNames \cup {SELF_TVAR_NAME} :
             (names[last'.cls][m].kind # "none" /\ ~names[last'.cls][m].plugin_generated)
             => names'[last'.cls][m] = names[last'.cls][m]]_vars

\* C5: after a completed transform no field with is_init_var is bound in the class's
\* own table, and each such field with is_in_init is a parameter of every constructor
\* transform generated for the class in that invocation.
InitVarsRemovedAndPassed ==
    Completed =>
        \A i \in 1..Len(last.attrs) :
            last.attrs[i].is_init_var =>
                /\ names[last.cls][last.attrs[i].name].kind = "none"
                /\ last.attrs[i].is_in_init
                   => \A n \in 1..Len(last.calls) :
                         last.calls[n].name = "__init__"
                         => \E k \in 1..Len(last.calls[n].args) :
                               last.calls[n].args[k].name = last.attrs[i].name

\* A class that declares no field inherits a constructor-only field, and transform
\* generates its constructor.
InitVarsRemovedAndPassedWitness ==
    /\ Completed /\ body[last.cls] = <<>>
    /\ \E i \in 1..Len(last.attrs) : last.attrs[i].is_init_var /\ last.attrs[i].is_in_init
    /\ "__init__" \in CallNames(last.calls)

\* C6: with order true and eq false, no ordering method of the user's and no
\* violation of the defaults' order, transform emits exactly one diagnostic, calls
\* add_method for no ordering method, and none is in the class's table afterwards.
OrderWithoutEqSynthesizesNothing ==
    (/\ Completed
     /\ flags[last.cls].order /\ ~flags[last.cls].eq
     /\ \A i \in 1..Len(OrderMethods) :
           \/ InfoGet(last.cls, names[last.cls], OrderMethods[i]).kind = "none"
           \/ InfoGet(last.cls, names[last.cls], OrderMethods[i]).plugin_generated
     /\ \A i \in 1..Len(last.diags) :
           last.diags[i].msg # "Attributes without a default cannot follow attributes with one")
    => /\ Len(last.diags) = 1
       /\ last.diags[1].msg = "eq must be True if order is True"
       /\ CallNames(last.calls) \cap SeqToSet(OrderMethods) = {}
       /\ \A i \in 1..Len(OrderMethods) : names[last.cls][OrderMethods[i]].kind = "none"

\* Whether the i-th field of attrs offends the defaults' order: it is in the
\* constructor, has no default, and a field before it is in the constructor with one.
Offending(attrs, i) ==
    /\ attrs[i].is_in_init /\ ~attrs[i].has_default
    /\ \E j \in 1..(i - 1) : attrs[j].is_in_init /\ attrs[j].has_default

\* The diagnostics about the defaults' order among diags.
DefaultOrderDiagnostics(diags) ==
    SelectSeq(diags,
              LAMBDA d : d.msg = "Attributes without a default cannot follow attributes with one")

\* C7: when collect_attributes returns a list, the diagnostics about the defaults'
\* order are as many as the offending fields, the k-th carries the line and column of
\* the k-th offending field, and the constructor is generated all the same when the
\* invocation completes with init on and no __init__ of the user's.
DefaultOrderDiagnosed ==
    (Invoked /\ last.collected) =>
        LET reported == DefaultOrderDiagnostics(last.diags)
            offending == {i \in 1..Len(last.attrs) : Offending(last.attrs, i)}
        IN  /\ Len(reported) = Cardinality(offending)
            /\ \A i \in offending :
                  LET k == Cardinality({j \in offending : j <= i})
                  IN  /\ reported[k].line = last.attrs[i].line
                      /\ reported[k].column = last.attrs[i].column
            /\ (/\ offending # {} /\ last.outcome = "done" /\ flags[last.cls].init
                 /\ names[last.cls]["__init__"] # UserFunc)
               => \E n \in 1..Len(last.calls) :
                     /\ last.calls[n].name = "__init__"
                     /\ last.calls[n].args = ExpectedParameters(last.attrs)

\* A class declares a field without a default after it inherits one with a default:
\* one diagnostic, at the declaration, and the constructor is generated, the
\* offending field a required parameter after an optional one.
DefaultOrderDiagnosedWitness ==
    /\ Completed
    /\ Len(last.attrs) = 2
    /\ ~IsOwn(last.cls, last.attrs[1]) /\ IsOwn(last.cls, last.attrs[2])
    /\ Offending(last.attrs, 2)
    /\ DefaultOrderDiagnostics(last.diags)
         = <<Diagnostic("Attributes without a default cannot follow attributes with one",
                        last.attrs[2].line, last.attrs[2].column)>>
    /\ \E n \in 1..Len(last.calls) :
          /\ last.calls[n].name = "__init__"
          /\ last.calls[n].args = <<[name |-> last.attrs[1].name, kind |-> "ARG_OPT"],
                                    [name |-> last.attrs[2].name, kind |-> "ARG_POS"]>>

\* The classes of c's MRO, c and the root included, that bind name in the state
\* before the invocation.
Binders(c, name) ==
    {k \in SeqToSet(mro[c]) : TableOf(k, c, names[c])[name].kind # "none"}

\* Whether a class of c's MRO binds name to a member the plugin did not generate.
UserWritten(c, name) ==
    \E k \in SeqToSet(mro[c]) \ {Root} :
        names[k][name].kind # "none" /\ ~names[k][name].plugin_generated

\* C8 as stated: a completed transform with eq on, on a class that has no __eq__
\* and no __ne__ of the user's, its ancestors' included, leaves generated __eq__ and
\* __ne__ in the class's own table; with eq and order off it attaches neither.
EqAttachedUnlessUserWritten ==
    [][(last'.op = "transform" /\ last'.outcome = "done")
       => /\ (/\ flags[last'.cls].eq
               /\ ~UserWritten(last'.cls, "__eq__") /\ ~UserWritten(last'.cls, "__ne__"))
             => /\ names'[last'.cls]["__eq__"].plugin_generated
                /\ names'[last'.cls]["__ne__"].plugin_generated
          /\ (~flags[last'.cls].eq /\ ~flags[last'.cls].order)
             => CallNames(last'.calls) \cap SeqToSet(EqMethods) = {}]_vars

\* What transform does instead (a lemma the model satisfies, which locates the
\* failure of C8 in the lookup along the MRO): it calls add_method for __eq__ and
\* __ne__ exactly when eq is on and no class of the MRO, the root included, binds
\* __eq__, generated or not; otherwise both names stay bound as they were.
EqAttachedUnlessFound ==
    [][(last'.op = "transform" /\ last'.outcome = "done")
       => IF flags[last'.cls].eq /\ Binders(last'.cls, "__eq__") = {}
          THEN /\ SeqToSet(EqMethods) \subseteq CallNames(last'.calls)
               /\ names'[last'.cls]["__eq__"].plugin_generated
          ELSE /\ CallNames(last'.calls) \cap SeqToSet(EqMethods) = {}
               /\ \A i \in 1..Len(EqMethods) :
                     names'[last'.cls][EqMethods[i]] = names[last'.cls][EqMethods[i]]]_vars

\* C9: an invocation that ends not ready (collect_attributes returned None, or a
\* collected field's type is None) has emitted no diagnostic, called add_method for
\* no member, and left the class's metadata and generated members as they were.
NotReadyLeavesNothing ==
    [][(last'.op = "transform" /\ last'.outcome = "defer")
       => /\ last'.diags = <<>>
          /\ last'.calls = <<>>
          /\ metadata' = metadata
          /\ \A m \in MethodNames \cup {SELF_TVAR_NAME} :
                names'[last'.cls][m] = names[last'.cls][m]]_vars

\* C10: a class's metadata is written only after the metadata of all its
\* data-holder ancestors: an invocation on a class with an ancestor that has none
\* does not complete.
AncestorsSynthesizedFirst ==
    /\ \A c \in Classes :
          metadata[c].present => \A k \in Ancestors(c) : metadata[k].present
    /\ Completed => \A k \in Ancestors(last.cls) : metadata[k].present

====
